---- MODULE Spec2Model ----
(***************************************************************************)
(* The isosteric-replacements notebook as a state machine.                 *)
(*                                                                         *)
(* One run of the notebook executes its code cells top to bottom; pc names *)
(* the next cell.  A Python exception raised inside a cell stops the run   *)
(* (pc = "aborted"), as "Run All" does.  The kernel is not restarted       *)
(* between runs: a later run starts with the variables the earlier run     *)
(* left behind and every cell overwrites what it assigns.                  *)
(*                                                                         *)
(* RDKit and pandas are libraries; their calls are modelled by what they   *)
(* return on a small fixed chemistry: one molecule (atoms 1..9), five      *)
(* search patterns with their atom-set matches, six reactions with their   *)
(* product tuples, and the canonical SMILES of every product graph.        *)
(***************************************************************************)
EXTENDS Integers, Sequences, FiniteSets, TLC

\* ---------------------------------------------------------------- bounds
MaxLines == 3       \* data lines of the CSV file
MaxSel   == 2       \* positions 0..MaxSel-1 may be listed in .iloc[[...]]
MaxRuns  == 2       \* runs of the notebook in one kernel

\* ------------------------------------------------------------- constants
NCols == 4          \* columns of the isosteres table

NaN  == "NaN"       \* pandas missing value
None == "None"      \* Python None

\* ------------------------------------------------------- RDKit (library)
ValidSmiles     == "Cc1ccc(cc1)c1cc(nn1c1ccc(cc1)S(=O)(=O)N)C(F)(F)F"
MalformedSmiles == "Cc1ccc(cc1"

\* canonical SMILES strings that RDKit can parse and sanitize (kekulize)
ParsableSmiles == {ValidSmiles, "s_chloro", "s_pyridyl_a", "s_pyridyl_b", "s_amino"}

\* Chem.MolFromSmiles: a Mol, or None when the text cannot be parsed or the
\* structure cannot be kekulized (no exception is raised)
MolFromSmiles(text) == IF text \in ParsableSmiles THEN "Mol" ELSE None

\* atom sets of the matches of a SMARTS pattern in the molecule
GetSubstructMatches(smarts) ==
    CASE smarts = "[CH3]"       -> {{1}}
      [] smarts = "c1ccccc1"    -> {{6, 7}, {8, 9}}
      [] smarts = "[CH3]c1ccccc1" -> {{1, 6, 7}}
      [] smarts = "C(F)(F)F"    -> {{2, 3, 4, 5}}
      [] smarts = "[OH]"        -> {}
      [] OTHER                  -> {}

\* mol.HasSubstructMatch(pattern); mol is None: AttributeError (see MatchCell)
HasSubstructMatch(smarts) == GetSubstructMatches(smarts) # {}

\* rxn.RunReactants([molecule]): one tuple of products per match of the
\* reaction's reactant template, in the matcher's order; products are
\* unsanitized graphs
RunReactants(rxn) ==
    CASE rxn = "[CH3:1]>>[Cl:1]"          -> << <<"gA">> >>
      [] rxn = "c1ccccc1>>c1ccncc1"       -> << <<"gB1">>, <<"gB2">> >>
      [] rxn = "[CH3]c1ccccc1>>Clc1ccccc1" -> << <<"gC">> >>
      [] rxn = "C(F)(F)F>>c1cccc1"        -> << <<"gD">> >>
      [] rxn = "[OH:1]>>[F:1]"            -> << >>
      [] rxn = "[CH3:1]>>[NH2:1]"         -> << <<"gF">> >>
      [] OTHER                            -> << >>

\* Chem.MolToSmiles: canonical SMILES of a product graph.  gA and gC are the
\* same structure with different atom numbering; gD has a five-membered
\* "aromatic" ring that cannot be kekulized, its SMILES is still written.
MolToSmiles(g) ==
    CASE g = "gA"  -> "s_chloro"
      [] g = "gC"  -> "s_chloro"
      [] g = "gB1" -> "s_pyridyl_a"
      [] g = "gB2" -> "s_pyridyl_b"
      [] g = "gD"  -> "s_badring"
      [] g = "gF"  -> "s_amino"
      [] OTHER     -> "s_other"

\* ------------------------------------------------------------ CSV lines
\* A line of the file: a comment line, or a data line with nfields fields.
Row(label, smarts, rxn) ==
    [comment |-> FALSE, nfields |-> NCols, R_group |-> label, smarts |-> smarts, rxn |-> rxn]

RowA == Row("C[*]", "[CH3]", "[CH3:1]>>[Cl:1]")
RowB == Row("c1ccccc1[*]", "c1ccccc1", "c1ccccc1>>c1ccncc1")
RowC == Row("Cc1ccccc1[*]", "[CH3]c1ccccc1", "[CH3]c1ccccc1>>Clc1ccccc1")
RowD == Row("FC(F)(F)[*]", "C(F)(F)F", "C(F)(F)F>>c1cccc1")
RowE == Row("O[*]", "[OH]", "[OH:1]>>[F:1]")
\* a second label for the pattern of RowA
RowF == Row("[CH3][*]", "[CH3]", "[CH3:1]>>[NH2:1]")

CommentLine == [RowA EXCEPT !.comment = TRUE]
LongLine    == [RowB EXCEPT !.nfields = NCols + 1]
ShortLine   == [RowB EXCEPT !.nfields = NCols - 1]

LinePool == {RowA, RowB, RowC, RowD, RowE, RowF, CommentLine, LongLine, ShortLine}

SeqsUpTo(S, n) == UNION {[1..k -> S] : k \in 0..n}

\* ---------------------------------------------------------------- state
VARIABLES
    input_smiles,       \* the SMILES text typed into the parse cell
    csv_file,           \* the lines of isostere_replacement_table_expanded.csv
    selection,          \* the positions listed in r_groups_found.iloc[[...]]
    pc,                 \* next cell of the current run
    run,                \* number of the current run
    first,              \* what the first run ended with
    molecule,
    isosteres,
    warnings,           \* parser warnings emitted by read_csv
    unique_R_groups_smiles,
    unique_R_groups_smarts,
    searched,           \* the patterns HasSubstructMatch was called with, in call order
    r_groups_found,
    r_groups_found_filtered,
    r_groups_to_apply,
    transformations,
    reactions,
    attempted,          \* iterations of the enumeration loop that were started
    enumerated_replacements_smiles,
    enumerated_molecules,
    suggestions_rdkit,  \* column "Suggestions (RDKit)"
    exported            \* the files written: <<>> or <<enumerated_molecules_expanded.csv>>

inputs == <<input_smiles, csv_file, selection>>
kernel == <<molecule, isosteres, warnings, unique_R_groups_smiles, unique_R_groups_smarts,
            searched, r_groups_found, r_groups_found_filtered, r_groups_to_apply, transformations,
            reactions, attempted, enumerated_replacements_smiles, enumerated_molecules,
            suggestions_rdkit, exported>>
vars == <<inputs, pc, run, first, kernel>>

Unset == "unset"    \* a name the kernel has not bound yet

Init ==
    /\ input_smiles \in {ValidSmiles, MalformedSmiles}
    /\ csv_file \in SeqsUpTo(LinePool, MaxLines)
    /\ selection \in SUBSET (0..(MaxSel - 1))
    /\ pc = "parse"
    /\ run = 1
    /\ first = [status |-> "none", products |-> <<>>]
    /\ molecule = Unset
    /\ isosteres = <<>>
    /\ warnings = <<>>
    /\ unique_R_groups_smiles = <<>>
    /\ unique_R_groups_smarts = <<>>
    /\ searched = <<>>
    /\ r_groups_found = <<>>
    /\ r_groups_found_filtered = <<>>
    /\ r_groups_to_apply = {}
    /\ transformations = <<>>
    /\ reactions = <<>>
    /\ attempted = 0
    /\ enumerated_replacements_smiles = <<>>
    /\ enumerated_molecules = <<>>
    /\ suggestions_rdkit = <<>>
    /\ exported = <<>>


\* --------------------------------------------------------------- pandas
\* unique() left out: every value is kept
unique_keep_all(s) == s

\* the distinct values in order of LAST appearance (drop_duplicates(keep="last"))
RECURSIVE unique_keep_last(_)
unique_keep_last(s) ==
    IF s = <<>> THEN <<>>
    ELSE LET rest == unique_keep_last(Tail(s))
         IN  IF \E i \in 1..Len(rest) : rest[i] = Head(s) THEN rest ELSE <<Head(s)>> \o rest

\* Series.unique(): the distinct values in order of first appearance
RECURSIVE unique(_)
unique(s) ==
    IF s = <<>> THEN <<>>
    ELSE LET init == unique(SubSeq(s, 1, Len(s) - 1))
             last == s[Len(s)]
         IN  IF \E i \in 1..Len(init) : init[i] = last THEN init ELSE Append(init, last)

Column(table, name) == [i \in 1..Len(table) |-> table[i][name]]

\* read_csv's on_bad_lines argument: "error" raises on a line with too many
\* fields, "warn" skips it and emits a warning, "skip" skips it silently
on_bad_lines_warn == "warn"

on_bad_lines == "skip"

\* A line with more fields than the header is a bad line.
IsBadLine(line) == ~line.comment /\ line.nfields > NCols

\* A data line with fewer fields than the header is kept and its missing
\* trailing fields are NaN; "Reaction (SMARTS)" is the last column.
ParseLine(line) ==
    [R_group |-> line.R_group,
     smarts  |-> line.smarts,
     rxn     |-> IF line.nfields < NCols THEN NaN ELSE line.rxn]

\* pd.read_csv(..., on_bad_lines=..., comment="#")
read_csv(file) ==
    LET bad  == {i \in 1..Len(file) : IsBadLine(file[i])}
        keep == SelectSeq(file, LAMBDA line : ~line.comment /\ ~IsBadLine(line))
    IN  [raised   |-> on_bad_lines = "error" /\ bad # {},
         table    |-> [i \in 1..Len(keep) |-> ParseLine(keep[i])],
         warnings |-> IF on_bad_lines = "warn"
                      THEN SelectSeq([i \in 1..Len(file) |-> i], LAMBDA i : i \in bad)
                      ELSE <<>>]

\* ---------------------------------------------------------------- cells
\* molecule = Chem.MolFromSmiles("...")
ParseCell ==
    /\ pc = "parse"
    /\ molecule' = MolFromSmiles(input_smiles)
    /\ pc' = "load"
    /\ UNCHANGED <<inputs, run, first, searched, isosteres, warnings, unique_R_groups_smiles,
                   unique_R_groups_smarts, r_groups_found, r_groups_found_filtered,
                   r_groups_to_apply, transformations, reactions, attempted,
                   enumerated_replacements_smiles, enumerated_molecules,
                   suggestions_rdkit, exported>>

\* isosteres = pd.read_csv(...)
LoadCell ==
    /\ pc = "load"
    /\ LET res == read_csv(csv_file)
       IN  IF res.raised
           THEN /\ pc' = "aborted"
                /\ UNCHANGED <<isosteres, warnings>>
           ELSE /\ pc' = "unique"
                /\ isosteres' = res.table
                /\ warnings' = res.warnings
    /\ UNCHANGED <<inputs, run, first, searched, molecule, unique_R_groups_smiles,
                   unique_R_groups_smarts, r_groups_found, r_groups_found_filtered,
                   r_groups_to_apply, transformations, reactions, attempted,
                   enumerated_replacements_smiles, enumerated_molecules,
                   suggestions_rdkit, exported>>

\* unique_R_groups_smiles / unique_R_groups_smarts: two independent unique()
UniqueCell ==
    /\ pc = "unique"
    /\ unique_R_groups_smiles' = unique(Column(isosteres, "R_group"))
    /\ unique_R_groups_smarts' = unique(Column(isosteres, "smarts"))
    /\ pc' = "match"
    /\ UNCHANGED <<inputs, run, first, searched, molecule, isosteres, warnings, r_groups_found,
                   r_groups_found_filtered, r_groups_to_apply, transformations, reactions,
                   attempted, enumerated_replacements_smiles, enumerated_molecules,
                   suggestions_rdkit, exported>>

\* r_groups_found["Found"] = pd.Series([...]): the Series is aligned on the
\* frame's index 0..n-1; a missing position is NaN, an extra one is dropped
FoundColumn(n, smarts_patterns) ==
    [i \in 1..n |-> IF i <= Len(smarts_patterns)
                    THEN (IF HasSubstructMatch(smarts_patterns[i]) THEN "True" ELSE "False")
                    ELSE NaN]

\* a match is subsumed when it is a strict subset of a match of another row
Subsumed(frame, row) ==
    \E other \in 1..Len(frame) :
        /\ frame[other].Found = "True"
        /\ other <= Len(unique_R_groups_smarts)
        /\ row.index + 1 <= Len(unique_R_groups_smarts)
        /\ \E a \in GetSubstructMatches(unique_R_groups_smarts[other]),
              b \in GetSubstructMatches(unique_R_groups_smarts[row.index + 1]) :
                b \subseteq a /\ b # a

\* the query followed by a subsumption filter
query_found_maximal(frame) ==
    SelectSeq(frame, LAMBDA row : row.Found = "True" /\ ~Subsumed(frame, row))

\* r_groups_found.query("Found == True"); the rows keep their index
query_found(frame) == SelectSeq(frame, LAMBDA row : row.Found = "True")

\* r_groups_found = pd.DataFrame() with its two columns, then the query
MatchCell ==
    /\ pc = "match"
    /\ IF molecule = None /\ unique_R_groups_smarts # <<>>
       THEN \* molecule.HasSubstructMatch: AttributeError on None, raised after
            \* the first column of the new frame was assigned
            /\ pc' = "aborted"
            /\ searched' = << >>
            /\ r_groups_found' = [i \in 1..Len(unique_R_groups_smiles) |->
                                    [index |-> i - 1, R_group |-> unique_R_groups_smiles[i],
                                     Found |-> Unset]]
            /\ UNCHANGED r_groups_found_filtered
       ELSE LET found == FoundColumn(Len(unique_R_groups_smiles), unique_R_groups_smarts)
                frame == [i \in 1..Len(unique_R_groups_smiles) |->
                            [index |-> i - 1, R_group |-> unique_R_groups_smiles[i],
                             Found |-> found[i]]]
            IN  /\ searched' = unique_R_groups_smarts
                /\ r_groups_found' = frame
                /\ r_groups_found_filtered' = query_found(frame)
                /\ pc' = "select"
    /\ UNCHANGED <<inputs, run, first, molecule, isosteres, warnings, unique_R_groups_smiles,
                   unique_R_groups_smarts, r_groups_to_apply, transformations, reactions,
                   attempted, enumerated_replacements_smiles, enumerated_molecules,
                   suggestions_rdkit, exported>>


\* r_groups_to_apply = r_groups_found.iloc[[...]]: positions in the
\* unfiltered frame; a position past its end raises IndexError
SelectCell ==
    /\ pc = "select"
    /\ IF \E p \in selection : p >= Len(r_groups_found)
       THEN /\ pc' = "aborted"
            /\ UNCHANGED r_groups_to_apply
       ELSE /\ r_groups_to_apply' = {r_groups_found[p + 1] : p \in selection}
            /\ pc' = "transform"
    /\ UNCHANGED <<inputs, run, first, searched, molecule, isosteres, warnings, unique_R_groups_smiles,
                   unique_R_groups_smarts, r_groups_found, r_groups_found_filtered,
                   transformations, reactions, attempted, enumerated_replacements_smiles,
                   enumerated_molecules, suggestions_rdkit, exported>>

\* isosteres["R_group"].isin(r_groups_to_apply["R-group to be searched for"])
isin(value, frame) == \E row \in frame : row.R_group = value

\* transformations = the rows of isosteres whose R_group is selected, in
\* table order; reactions = their "Reaction (SMARTS)" column
TransformCell ==
    /\ pc = "transform"
    /\ LET rows == SelectSeq(isosteres, LAMBDA row : isin(row.R_group, r_groups_to_apply))
       IN  /\ transformations' = rows
           /\ reactions' = Column(rows, "rxn")
    /\ pc' = "enumerate"
    /\ UNCHANGED <<inputs, run, first, searched, molecule, isosteres, warnings, unique_R_groups_smiles,
                   unique_R_groups_smarts, r_groups_found, r_groups_found_filtered,
                   r_groups_to_apply, attempted, enumerated_replacements_smiles,
                   enumerated_molecules, suggestions_rdkit, exported>>

\* products[-1][0]: the product of the last match
LastMatchProduct(products) == products[Len(products)][1]

\* products[0][0]
FirstProduct(products) == products[1][1]

\* The body of the for loop raises when the cell holds NaN instead of a
\* reaction string (ReactionFromSmarts), when the molecule is None
\* (RunReactants) and when the reaction gave no product (products[0]).
Raises(mol, item) ==
    \/ item = NaN
    \/ mol = None
    \/ RunReactants(item) = << >>

\* the loop with its body wrapped in try/except: a raising item is passed over
RECURSIVE EnumerationLoopSkipping(_, _, _, _)
EnumerationLoopSkipping(mol, items, i, acc) ==
    IF i > Len(items)
    THEN [smiles |-> acc, started |-> i - 1, raised |-> FALSE]
    ELSE EnumerationLoopSkipping(mol, items, i + 1,
             IF Raises(mol, items[i]) THEN acc
             ELSE Append(acc, MolToSmiles(FirstProduct(RunReactants(items[i])))))

\* the loop with Chem.SanitizeMol in a try/except: a product that cannot be
\* sanitized is passed over
RECURSIVE EnumerationLoopSanitized(_, _, _, _)
EnumerationLoopSanitized(mol, items, i, acc) ==
    IF i > Len(items)
    THEN [smiles |-> acc, started |-> i - 1, raised |-> FALSE]
    ELSE IF Raises(mol, items[i])
         THEN [smiles |-> acc, started |-> i, raised |-> TRUE]
         ELSE LET smi == MolToSmiles(FirstProduct(RunReactants(items[i])))
              IN  EnumerationLoopSanitized(mol, items, i + 1,
                      IF MolFromSmiles(smi) = None THEN acc ELSE Append(acc, smi))

\* for index, item in reactions.items(): ... append(MolToSmiles(products[0][0]))
\* from item i on; acc is the list so far.  The result is the list, the
\* number of iterations started and whether an iteration raised.
RECURSIVE EnumerationLoop(_, _, _, _)
EnumerationLoop(mol, items, i, acc) ==
    IF i > Len(items)
    THEN [smiles |-> acc, started |-> i - 1, raised |-> FALSE]
    ELSE IF Raises(mol, items[i])
         THEN [smiles |-> acc, started |-> i, raised |-> TRUE]
         ELSE EnumerationLoop(mol, items, i + 1,
                  Append(acc, MolToSmiles(FirstProduct(RunReactants(items[i])))))

\* enumerated_replacements_smiles = []; the loop
EnumerateCell ==
    /\ pc = "enumerate"
    /\ LET res == EnumerationLoop(molecule, reactions, 1, <<>>)
       IN  /\ enumerated_replacements_smiles' = res.smiles
           /\ attempted' = res.started
           /\ pc' = IF res.raised THEN "aborted" ELSE "dedup"
    /\ UNCHANGED <<inputs, run, first, searched, molecule, isosteres, warnings, unique_R_groups_smiles,
                   unique_R_groups_smarts, r_groups_found, r_groups_found_filtered,
                   r_groups_to_apply, transformations, reactions, enumerated_molecules,
                   suggestions_rdkit, exported>>

\* the orders in which iterating a set of strings can yield its elements
Orders(S) == {q \in [1..Cardinality(S) -> S] : \A x \in S : \E i \in DOMAIN q : q[i] = x}

\* dedup by list(set(...)): the order is that of the string hashes of the process
DedupCellSet ==
    /\ pc = "dedup"
    /\ enumerated_molecules' \in
           Orders({enumerated_replacements_smiles[i] : i \in DOMAIN enumerated_replacements_smiles})
    /\ pc' = "render"
    /\ UNCHANGED <<inputs, run, first, searched, molecule, isosteres, warnings, unique_R_groups_smiles,
                   unique_R_groups_smarts, r_groups_found, r_groups_found_filtered,
                   r_groups_to_apply, transformations, reactions, attempted,
                   enumerated_replacements_smiles, suggestions_rdkit, exported>>

\* enumerated_molecules = DataFrame(enumerated_molecules[...].unique(), ...)
DedupCell ==
    /\ pc = "dedup"
    /\ enumerated_molecules' = unique(enumerated_replacements_smiles)
    /\ pc' = "render"
    /\ UNCHANGED <<inputs, run, first, searched, molecule, isosteres, warnings, unique_R_groups_smiles,
                   unique_R_groups_smarts, r_groups_found, r_groups_found_filtered,
                   r_groups_to_apply, transformations, reactions, attempted,
                   enumerated_replacements_smiles, suggestions_rdkit, exported>>

\* the render cell followed by the enumeration cell again (cells out of order)
RenderCellBack ==
    /\ pc = "render"
    /\ suggestions_rdkit' = [i \in 1..Len(enumerated_molecules) |->
                                MolFromSmiles(enumerated_molecules[i])]
    /\ pc' = "enumerate"
    /\ UNCHANGED <<inputs, run, first, searched, molecule, isosteres, warnings, unique_R_groups_smiles,
                   unique_R_groups_smarts, r_groups_found, r_groups_found_filtered,
                   r_groups_to_apply, transformations, reactions, attempted,
                   enumerated_replacements_smiles, enumerated_molecules, exported>>

\* PandasTools.AddMoleculeColumnToFrame(enumerated_molecules, ...): a Mol per
\* row, None where the SMILES cannot be turned into a molecule; no row is
\* removed
RenderCell ==
    /\ pc = "render"
    /\ suggestions_rdkit' = [i \in 1..Len(enumerated_molecules) |->
                                MolFromSmiles(enumerated_molecules[i])]
    /\ pc' = "export"
    /\ UNCHANGED <<inputs, run, first, searched, molecule, isosteres, warnings, unique_R_groups_smiles,
                   unique_R_groups_smarts, r_groups_found, r_groups_found_filtered,
                   r_groups_to_apply, transformations, reactions, attempted,
                   enumerated_replacements_smiles, enumerated_molecules, exported>>

\* enumerated_molecules["Suggestions (SMILES)"].to_csv(...)
ExportCell ==
    /\ pc = "export"
    /\ exported' = <<enumerated_molecules>>
    /\ pc' = "done"
    /\ UNCHANGED <<inputs, run, first, searched, molecule, isosteres, warnings, unique_R_groups_smiles,
                   unique_R_groups_smarts, r_groups_found, r_groups_found_filtered,
                   r_groups_to_apply, transformations, reactions, attempted,
                   enumerated_replacements_smiles, enumerated_molecules, suggestions_rdkit>>

Finished == pc \in {"done", "aborted"}

\* what a run ends with: how it ended and its product list
Report == [status |-> pc, products |-> IF pc = "done" THEN enumerated_molecules ELSE <<>>]

\* The notebook is run again in the same kernel, on the same inputs.
RunAgain ==
    /\ Finished
    /\ run < MaxRuns
    /\ run' = run + 1
    /\ first' = IF run = 1 THEN Report ELSE first
    /\ pc' = "parse"
    /\ UNCHANGED <<inputs, kernel>>

Next ==
    \/ ParseCell
    \/ LoadCell
    \/ UniqueCell
    \/ MatchCell
    \/ SelectCell
    \/ TransformCell
    \/ EnumerateCell
    \/ DedupCell
    \/ RenderCell
    \/ ExportCell
    \/ RunAgain

Spec == Init /\ [][Next]_vars


\* =============================================================== claims
AfterMatch     == pc \in {"select", "transform", "enumerate", "dedup", "render", "export", "done"}
AfterEnumerate == pc \in {"dedup", "render", "export", "done"}
AfterDedup     == pc \in {"render", "export", "done"}

raw == enumerated_replacements_smiles

Occurs(s, x) == \E i \in 1..Len(s) : s[i] = x
FirstIndex(s, x) == CHOOSE i \in 1..Len(s) : s[i] = x /\ \A j \in 1..(i - 1) : s[j] # x

\* C1: the product list of a run holds no canonical SMILES twice: once the
\* dedup cell has run, the entries of enumerated_molecules (and of the
\* exported file) at different positions differ.
C1_NoDuplicateKeys ==
    AfterDedup =>
        /\ \A i, j \in 1..Len(enumerated_molecules) :
               i # j => enumerated_molecules[i] # enumerated_molecules[j]
        /\ pc = "done" => exported = <<enumerated_molecules>>

\* a finished run whose raw list held a SMILES twice and kept two products
C1_Witness ==
    /\ pc = "done"
    /\ Len(enumerated_molecules) >= 2
    /\ \E i, j \in 1..Len(raw) : i < j /\ raw[i] = raw[j]

\* C2: the product list is in first-seen order: every SMILES of the raw
\* list is in the product list, nothing else is, and a SMILES whose first
\* occurrence in the raw list is earlier stands earlier in the product list.
C2_FirstSeenOrder ==
    AfterDedup =>
        /\ \A i \in 1..Len(raw) : Occurs(enumerated_molecules, raw[i])
        /\ \A k \in 1..Len(enumerated_molecules) : Occurs(raw, enumerated_molecules[k])
        /\ \A k, l \in 1..Len(enumerated_molecules) :
               k < l => FirstIndex(raw, enumerated_molecules[k])
                          < FirstIndex(raw, enumerated_molecules[l])

\* a raw list a, b, a: the duplicate comes after another product
C2_Witness ==
    /\ AfterDedup
    /\ \E i, j, k \in 1..Len(raw) : i < j /\ j < k /\ raw[i] = raw[k] /\ raw[i] # raw[j]

\* C3: a run of the notebook on the same molecule, table and selection ends
\* as the first run did: the same way and with the same ordered product list.
C3_Determinism ==
    (run >= 2 /\ Finished) => Report = first

\* a second run that finished with at least two products
C3_Witness ==
    /\ run >= 2
    /\ pc = "done"
    /\ Len(enumerated_molecules) >= 2


\* the rewrite of a rule row gives no product (or the row holds no reaction)
RuleFails(item) == item = NaN \/ RunReactants(item) = << >>

\* the canonical SMILES the loop appends for a rule row that does not fail
KeyOf(item) == MolToSmiles(RunReactants(item)[1][1])

\* the appended structure does not pass sanitization (cannot be kekulized)
InvalidStructure(item) == ~RuleFails(item) /\ MolFromSmiles(KeyOf(item)) = None

\* the enumeration loop of this run was entered
LoopEntered == AfterEnumerate \/ (pc = "aborted" /\ attempted >= 1)

\* the reaction of a rule row matches nowhere: RunReactants returns ()
NoProduct(item) == item # NaN /\ RunReactants(item) = << >>

\* C4: a rule whose rewrite yields no product, or a structure that cannot be
\* kekulized, does not abort the run: once the loop has attempted such a
\* rule, every applied rule row is attempted and the run is not aborted (it
\* goes on to the dedup cell and to the end).
C4_RuleErrorDoesNotAbort ==
    (LoopEntered /\ \E i \in 1..attempted :
                        NoProduct(reactions[i]) \/ InvalidStructure(reactions[i])) =>
        /\ attempted = Len(reactions)
        /\ pc # "aborted"

\* C5 as stated: in a completed run the product of a rule whose rewrite gave
\* a structure that cannot be kekulized is not in the product list, and the
\* products of the other rules are.
C5_InvalidProductExcluded ==
    pc = "done" =>
        \A i \in 1..Len(reactions) :
            IF InvalidStructure(reactions[i])
            THEN ~Occurs(enumerated_molecules, KeyOf(reactions[i]))
            ELSE Occurs(enumerated_molecules, KeyOf(reactions[i]))

\* C5 as amended: the loop makes no sanity check, so in a completed run the
\* product of every applied rule is in the product list, the one that cannot
\* be kekulized included; only its rendered molecule is missing (None).
C5_InvalidProductKept ==
    /\ AfterDedup =>
           \A i \in 1..Len(reactions) : Occurs(enumerated_molecules, KeyOf(reactions[i]))
    /\ pc \in {"export", "done"} =>
           /\ Len(suggestions_rdkit) = Len(enumerated_molecules)
           /\ \A i \in 1..Len(reactions) :
                  InvalidStructure(reactions[i]) =>
                      suggestions_rdkit[FirstIndex(enumerated_molecules, KeyOf(reactions[i]))] = None

\* a completed run with a product that cannot be kekulized and another that can
C5_Witness ==
    /\ pc = "done"
    /\ \E i, j \in 1..Len(reactions) :
           /\ InvalidStructure(reactions[i])
           /\ ~InvalidStructure(reactions[j])
           /\ Occurs(exported[1], KeyOf(reactions[i]))
           /\ Occurs(exported[1], KeyOf(reactions[j]))

\* the matches of the search pattern paired with a row of r_groups_found
CandidateMatches(row) ==
    IF row.index + 1 <= Len(unique_R_groups_smarts)
    THEN GetSubstructMatches(unique_R_groups_smarts[row.index + 1])
    ELSE {}

\* some match of row b is a strict subset of some match of row a
StrictlyInside(b, a) ==
    \E x \in CandidateMatches(a), y \in CandidateMatches(b) : y \subseteq x /\ y # x

\* C6 as stated: no two candidates of the default list of found R-groups
\* have atom sets in a strict containment relation.
C6_NoSubsumedCandidate ==
    AfterMatch =>
        \A k, l \in 1..Len(r_groups_found_filtered) :
            ~StrictlyInside(r_groups_found_filtered[k], r_groups_found_filtered[l])

\* C6 as amended: the default list holds exactly the rows of r_groups_found
\* whose Found flag is true, in table order, whether or not the atoms of one
\* lie inside the atoms of another.
C6_FoundCandidatesUnfiltered ==
    AfterMatch =>
        /\ \A i \in 1..Len(r_groups_found) :
               r_groups_found[i].Found = "True"
                   <=> \E k \in 1..Len(r_groups_found_filtered) :
                           r_groups_found_filtered[k] = r_groups_found[i]
        /\ \A k \in 1..Len(r_groups_found_filtered) :
               \E i \in 1..Len(r_groups_found) : r_groups_found_filtered[k] = r_groups_found[i]
        /\ \A k, l \in 1..Len(r_groups_found_filtered) :
               k < l => r_groups_found_filtered[k].index < r_groups_found_filtered[l].index

\* two candidates of the default list, the atoms of one inside the other's
C6_Witness ==
    /\ AfterMatch
    /\ \E k, l \in 1..Len(r_groups_found_filtered) :
           StrictlyInside(r_groups_found_filtered[k], r_groups_found_filtered[l])

\* C7: a run on a molecule text that cannot be parsed ends aborted, without
\* a rewrite having been attempted and without a product list written.
C7_MalformedMoleculeAborts ==
    (MolFromSmiles(input_smiles) = None /\ Finished) =>
        /\ pc = "aborted"
        /\ attempted = 0
        /\ exported = << >>


\* the rows of the table whose R_group is among the selected ones
SelectedRows ==
    SelectSeq(isosteres, LAMBDA row : \E sel \in r_groups_to_apply : sel.R_group = row.R_group)

\* C8: a completed run accounts for every selected rule.  The notebook keeps
\* no list of errors, so every selected R-group has its rule rows applied and
\* every applied rule row was attempted, did not fail, and contributed a
\* product whose SMILES is in the exported list (kept, or a duplicate of an
\* earlier one).
C8_CompletedRunAccountsForEveryRule ==
    pc = "done" =>
        /\ \A sel \in r_groups_to_apply :
               \E i \in 1..Len(transformations) : transformations[i].R_group = sel.R_group
        /\ \A j \in 1..Len(SelectedRows) : Occurs(transformations, SelectedRows[j])
        /\ attempted = Len(transformations)
        /\ Len(raw) = Len(transformations)
        /\ \A i \in 1..Len(transformations) :
               /\ ~RuleFails(transformations[i].rxn)
               /\ Occurs(exported[1], KeyOf(transformations[i].rxn))

\* a completed run of two selected R-groups in which one product was kept
\* and a later one dropped as its duplicate
C8_Witness ==
    /\ pc = "done"
    /\ Cardinality(r_groups_to_apply) >= 2
    /\ Len(exported[1]) < Len(raw)
    /\ Len(exported[1]) >= 1

\* a data line whose number of fields is not that of the header
Malformed(line) == ~line.comment /\ line.nfields # NCols

\* the read_csv cell of this run is over
Loaded == pc \notin {"parse", "load"}

ExpectedTable ==
    LET kept == SelectSeq(csv_file, LAMBDA line : ~line.comment /\ line.nfields <= NCols)
    IN  [i \in 1..Len(kept) |->
            [R_group |-> kept[i].R_group, smarts |-> kept[i].smarts,
             rxn |-> IF kept[i].nfields = NCols THEN kept[i].rxn ELSE NaN]]

C10_FirstMatchPolicy ==
    /\ AfterEnumerate =>
           /\ transformations = SelectedRows
           /\ Len(raw) = Len(transformations)
           /\ \A i \in 1..Len(raw) :
                  raw[i] = MolToSmiles(RunReactants(transformations[i].rxn)[1][1])
    /\ (pc = "aborted" /\ attempted >= 1) =>
           /\ Len(raw) = attempted - 1
           /\ \A i \in 1..Len(raw) :
                  raw[i] = MolToSmiles(RunReactants(transformations[i].rxn)[1][1])

\* the loop is over, two rule rows were applied and the reaction of one of
\* them matched the molecule at two sites
C10_Witness ==
    /\ AfterEnumerate
    /\ Len(raw) >= 2
    /\ \E i \in 1..Len(reactions) : Len(RunReactants(reactions[i])) >= 2


\* the phase of the pipeline a run is in, by its next cell: the rules are
\* loaded once the read_csv cell is over, the matches found once the match
\* cell is over, the products generated once the loop is over, deduplicated
\* once the dedup cell is over, done once the file is written
Phase(cell) ==
    CASE cell \in {"parse", "load"}                   -> "Idle"
      [] cell \in {"unique", "match"}                 -> "RulesLoaded"
      [] cell \in {"select", "transform", "enumerate"} -> "MatchesFound"
      [] cell = "dedup"                               -> "ProductsGenerated"
      [] cell \in {"render", "export"}                -> "Deduplicated"
      [] cell = "done"                                -> "Done"
      [] OTHER                                        -> "Aborted"

NextPhase(phase) ==
    CASE phase = "Idle"              -> "RulesLoaded"
      [] phase = "RulesLoaded"       -> "MatchesFound"
      [] phase = "MatchesFound"      -> "ProductsGenerated"
      [] phase = "ProductsGenerated" -> "Deduplicated"
      [] phase = "Deduplicated"      -> "Done"
      [] OTHER                       -> "none"

\* C11: the phases of a run come in the order Idle, RulesLoaded,
\* MatchesFound, ProductsGenerated, Deduplicated, Done: a run starts Idle, a
\* step of a run stays in its phase, enters the next one or aborts the run,
\* and a run that is done or aborted takes no further step.
C11_LinearPhases ==
    /\ Phase(pc) = "Idle"
    /\ [][ IF run' = run
           THEN /\ ~Finished
                /\ \/ Phase(pc') = Phase(pc)
                   \/ Phase(pc') = NextPhase(Phase(pc))
                   \/ pc' = "aborted"
           ELSE Finished /\ Phase(pc') = "Idle" ]_vars

\* a run that went through every phase and wrote its product list
C11_Witness ==
    /\ pc = "done"
    /\ run = 1
    /\ exported = <<enumerated_molecules>>
    /\ Len(enumerated_molecules) >= 1


\* the R-group label has a rule row whose search pattern matches the molecule
PatternMatched(label) ==
    \E i \in 1..Len(isosteres) :
        isosteres[i].R_group = label /\ HasSubstructMatch(isosteres[i].smarts)

\* C12: the match cell searches each distinct pattern of the table at most
\* once, and the filtered candidate list holds exactly the R-groups of the
\* table whose search pattern matched the molecule.
C12_SearchOncePerPatternExactCandidates ==
    AfterMatch =>
        /\ \A i, j \in 1..Len(searched) : i # j => searched[i] # searched[j]
        /\ \A i \in 1..Len(searched) :
               \E k \in 1..Len(isosteres) : isosteres[k].smarts = searched[i]
        /\ \A k \in 1..Len(isosteres) :
               PatternMatched(isosteres[k].R_group)
                   <=> \E c \in 1..Len(r_groups_found_filtered) :
                           r_groups_found_filtered[c].R_group = isosteres[k].R_group

\* C13: the Found flag stored at a row of r_groups_found is the match
\* result of the search pattern of every rule row that carries the row's
\* group label.
C13_FoundFlagBelongsToLabel ==
    AfterMatch =>
        \A i \in 1..Len(r_groups_found) :
            \A k \in 1..Len(isosteres) :
                isosteres[k].R_group = r_groups_found[i].R_group =>
                    r_groups_found[i].Found =
                        (IF HasSubstructMatch(isosteres[k].smarts) THEN "True" ELSE "False")

\* the Found flag r_groups_found holds for a group label
FoundFlag(label) ==
    LET i == CHOOSE i \in 1..Len(r_groups_found) : r_groups_found[i].R_group = label
    IN  r_groups_found[i].Found

\* C14: every rule row the enumeration loop has started on belongs to an
\* R-group whose Found flag is true, and its reaction returned at least one
\* product (products[0][0] does not read an empty result).
C14_AppliedRowsWereFound ==
    LoopEntered =>
        \A i \in 1..attempted :
            /\ FoundFlag(transformations[i].R_group) = "True"
            /\ reactions[i] # NaN => RunReactants(reactions[i]) # << >>

====
